---- MODULE Spec2Model ----
(***************************************************************************)
(* Model of src/filesys/inode.c: the buffer cache (cache_read,             *)
(* cache_write, find_block_and_acq_lock, cache_reset), the open-inode list *)
(* (inode_open, inode_reopen, inode_close, inode_remove), write denial     *)
(* (inode_deny_write, inode_allow_write), the indexed block mapping        *)
(* (bytes_to_blocks, inode_resize, inode_create, byte_to_sector) and byte  *)
(* I/O (inode_read_at, inode_write_at).                                    *)
(*                                                                         *)
(* The specifications sharing the module:                                  *)
(*   Spec         concurrent threads calling cache_read / cache_write      *)
(*   ResetSpec    the same threads, one of them also calling cache_reset   *)
(*   OpenSpec     concurrent threads calling inode_open / reopen / close   *)
(*   DenySpec     concurrent threads on open, close, deny, allow, write    *)
(*   DenyFairSpec DenySpec with weak fairness of the scheduler             *)
(*   FileSpec     one caller driving create / resize / open / remove /     *)
(*                close on one inode, with the layout constants (12, 128)  *)
(*   IoSpec       one caller writing and reading bytes of one inode        *)
(***************************************************************************)
EXTENDS Integers, Sequences, FiniteSets, TLC

\* ------------------------------------------------------------------------
\* Bounds of the model
\* ------------------------------------------------------------------------

\* Number of cache slots in the concurrent cache model (cache_init makes 64;
\* the recency list and the eviction logic do not depend on the number).
CacheSize == 2

\* Calls of cache_read / cache_write the threads make in all.
MaxOps == 4

\* struct inode objects malloc can hand out in the open-inode model.
MaxHandles == 2

\* Calls of inode_open / reopen / close / remove the threads make in all.
MaxInodeOps == 4

\* Sectors of the file system device in the block-mapping model.
FsSectors == 160

\* Free sectors of the nearly full device, on which a grow is refused.
FewFree == 5

\* Calls of inode_resize made on the in-memory inode.
MaxResizes == 3

\* References to the inode's handle taken by inode_open and inode_reopen.
MaxOpens == 2

\* Calls of inode_write_at on the open inode.
MaxWrites == 1

\* Calls of inode_read_at / byte_to_sector on the open inode.
MaxReads == 1

\* Calls of cache_reset made in all.
MaxResets == 1

\* Calls of cache_read / cache_write made beside a cache_reset.
ResetOps == 2

Threads == {"t1", "t2"}

NoThread == "none"

\* One sector more than there are slots, so that valid slots get evicted.
CacheSectors == 0 .. CacheSize

Slots == 1 .. CacheSize

Handles == 1 .. MaxHandles

\* Inode sectors the threads open.
OpenSectors == {1, 2}

\* block.h: bytes of a sector; the struct inode_disk fills one (lines 16-24).
BLOCK_SECTOR_SIZE == 512

\* Line 17: direct[12].
DIRECT_CNT == 12

\* Lines 217, 281: block_sector_t[128], the pointers of an index sector.
PTRS_PER_SECTOR == 128

\* Line 12.
INODE_MAGIC == 1229868868

\* size_t and block_sector_t are 32-bit unsigned words. The model holds a
\* word as the integer with the same 32 bits in two's complement (the model
\* checker's integers are 32 bits wide), so the words from 2^31 up are the
\* negative integers and arithmetic on words wraps as the machine's does.
\* Unsigned a <= b:
ULessEq(a, b) == IF (a >= 0) <=> (b >= 0) THEN a <= b ELSE b < 0

\* The word 0xFFFFFFFF.
AllOnes == 0 - 1

\* The words of a sector.
Words == 0 .. PTRS_PER_SECTOR - 1

\* The sectors of the free map and of the root directory, never handed out.
ReservedSectors == {0, 1}

\* The sector argument of inode_create: the sector of the inode under test,
\* which the caller has taken from the free map.
InodeSector == 2

\* Byte lengths tried: around the 0, 1, 12, 13, 140 and 141 sector marks.
Lengths ==
  {0, 1, BLOCK_SECTOR_SIZE, BLOCK_SECTOR_SIZE + 1, 2 * BLOCK_SECTOR_SIZE,
   DIRECT_CNT * BLOCK_SECTOR_SIZE, DIRECT_CNT * BLOCK_SECTOR_SIZE + 1,
   (DIRECT_CNT + PTRS_PER_SECTOR) * BLOCK_SECTOR_SIZE,
   (DIRECT_CNT + PTRS_PER_SECTOR) * BLOCK_SECTOR_SIZE + 1}

\* What a read past the end of new_block_list may yield: a zero word or the
\* number of some sector.
Garbage == {0, FsSectors - 1}

\* What the device holds for sector s before any write.
InitialContent(s) == 10 + s

VARIABLES
  \* ---- block cache (Spec) ----
  cache,       \* struct list cache: slot ids, most recently used first
  blk,         \* struct cache_block, by slot id
  device,      \* fs_device: sector -> contents
  cache_lock,  \* struct lock cache_lock: the holder, or NoThread
  pc,          \* position of each thread in cache_read / cache_write
  arg,         \* arguments of the running call: bst, reader, val
  cur,         \* local b of find_block_and_acq_lock
  got,         \* what cache_read copied to dest
  ops,         \* calls of cache_read / cache_write made so far
  logical,     \* history: contents of the last completed cache_write, else device
  want,        \* history: logical[bst] when cache_read copied
  rst,         \* history: resets made, what cache_destroy saw, last lookups
  \* ---- open-inode list (OpenSpec) ----
  open_inodes,     \* static struct list open_inodes: handle ids, front first
  inode,           \* struct inode, by handle id
  inode_list_lock, \* struct lock inode_list_lock: the holder, or NoThread
  opc,             \* position of each thread in inode_open / reopen / close
  oloc,            \* locals of the running call
  hist,            \* history: opens, closes and releases per handle
  \* ---- block mapping (FileSpec) ----
  ind_d,       \* struct inode_disk of the inode under test (in memory)
  sect,        \* contents of the sectors, as seen through the cache
  free_map,    \* the allocator's free sectors
  file,        \* the open handle of the inode: open_cnt, removed, phase
  last,        \* history of the last call
  io           \* history of the last inode_read_at / inode_write_at

cacheVars ==
  <<cache, blk, device, cache_lock, pc, arg, cur, got, ops, logical, want, rst>>
openVars == <<open_inodes, inode, inode_list_lock, opc, oloc, hist>>
fileVars == <<ind_d, sect, free_map, file, last, io>>
vars == <<cacheVars, openVars, fileVars>>

\* ------------------------------------------------------------------------
\* Block cache
\* ------------------------------------------------------------------------

\* new_cache_block: calloc'ed, not dirty, not valid, lock free, counters 0.
\* AR / AW are the rw_lock's active readers and active writer.
new_cache_block ==
  [content |-> 0, is_dirty |-> FALSE, is_valid |-> FALSE, bst |-> 0,
   hit_cnt |-> 0, miss_cnt |-> 0, AR |-> 0, AW |-> FALSE]

\* cache_init: list_push_front of each new block, so the last made is first.
cache_init_list == [i \in 1 .. CacheSize |-> CacheSize + 1 - i]

\* rw_lock_acquire(&b->lock, reader) can return: a reader waits for the
\* active writer, a writer for every active reader and writer.
rw_can_acquire(b, reader) ==
  IF reader THEN ~blk[b].AW ELSE ~blk[b].AW /\ blk[b].AR = 0

rw_acquired(b, reader) ==
  IF reader THEN [blk EXCEPT ![b].AR = @ + 1] ELSE [blk EXCEPT ![b].AW = TRUE]

rw_released(b, reader) ==
  IF reader THEN [blk EXCEPT ![b].AR = @ - 1] ELSE [blk EXCEPT ![b].AW = FALSE]

\* Line 119 with is_dirty in the place of is_valid.
MatchesDirtyOnly(b, bst) == blk[b].is_dirty /\ blk[b].bst = bst

\* Line 119: the test of the lookup loop.
Matches(b, bst) == blk[b].is_valid /\ blk[b].bst = bst

\* Lines 117-123: positions of the list whose block matches.
MatchingPositions(bst) == {i \in 1 .. Len(cache) : Matches(cache[i], bst)}

\* Lines 111-123: not_found after the loop.
NotFound(bst) == MatchingPositions(bst) = {}

\* Lines 117-126: b after the loop: the first match, else the last block.
FindBlock(bst) ==
  IF NotFound(bst)
    THEN cache[Len(cache)]
    ELSE cache[CHOOSE i \in MatchingPositions(bst) :
                 \A j \in MatchingPositions(bst) : i <= j]

\* Lines 128-129: list_remove(e); list_push_front(&cache, e).
MoveToFront(b) == <<b>> \o SelectSeq(cache, LAMBDA x : x # b)

\* The write-back done under the sector being fetched.
WritebackSectorNew(b, bst) == bst

\* Line 135: the sector the dirty victim is written to.
WritebackSector(b, bst) == blk[b].bst

\* The directory lock given up once the victim is chosen.
LockAfterScanReleased(t) == NoThread

\* Lines 113-148: the holder of cache_lock after the scan: still the caller.
LockAfterScan(t) == t

\* The blocks of the list whose last lookup is the oldest: no block of the
\* list was looked up before them (0: never looked up).
Oldest ==
  {cache[i] : i \in {i \in 1 .. Len(cache) :
                       \A j \in 1 .. Len(cache) :
                         rst.stamp[cache[i]] <= rst.stamp[cache[j]]}}

\* The locals of a thread that is in no call.
NoArg == [bst |-> 0, reader |-> TRUE, val |-> 0]

\* cache_read / cache_write entered with some arguments, up to line 113:
\* lock_acquire(&cache_lock). A cache_write stores the number of the call,
\* so every write differs.
LockCache(t) ==
  /\ pc[t] = "idle"
  /\ ops < MaxOps
  /\ cache_lock = NoThread
  /\ cache_lock' = t
  /\ ops' = ops + 1
  /\ \E s \in CacheSectors, r \in BOOLEAN :
       arg' = [arg EXCEPT ![t] = [bst |-> s, reader |-> r,
                                  val |-> IF r THEN 0 ELSE ops + 1]]
  /\ pc' = [pc EXCEPT ![t] = "scan"]
  /\ UNCHANGED <<cache, blk, device, cur, got, logical, want, rst>>

\* Lines 114-131 and 145: the lookup loop, the move to the front and the
\* counter of the branch taken.
Scan(t) ==
  /\ pc[t] = "scan"
  /\ cache # <<>>
  /\ LET b == FindBlock(arg[t].bst)
         miss == NotFound(arg[t].bst)
     IN /\ cur' = [cur EXCEPT ![t] = b]
        /\ cache' = MoveToFront(b)
        /\ blk' = IF miss THEN [blk EXCEPT ![b].miss_cnt = @ + 1]
                          ELSE [blk EXCEPT ![b].hit_cnt = @ + 1]
        /\ pc' = [pc EXCEPT ![t] = IF miss THEN "evict_lock" ELSE "lock_slot"]
        /\ rst' = [rst EXCEPT !.stamp[b] = ops, !.oldest = Oldest]
  /\ cache_lock' = LockAfterScan(t)
  /\ UNCHANGED <<device, arg, got, ops, logical, want>>

\* Line 132: rw_lock_acquire(&b->lock, false).
EvictLock(t) ==
  /\ pc[t] = "evict_lock"
  /\ rw_can_acquire(cur[t], FALSE)
  /\ blk' = rw_acquired(cur[t], FALSE)
  /\ pc' = [pc EXCEPT ![t] = "writeback"]
  /\ UNCHANGED <<cache, device, cache_lock, arg, cur, got, ops, logical, want, rst>>

\* Lines 134-136: block_write of a valid and dirty victim.
Writeback(t) ==
  /\ pc[t] = "writeback"
  /\ LET b == cur[t]
     IN device' = IF blk[b].is_valid /\ blk[b].is_dirty
                    THEN [device EXCEPT ![WritebackSector(b, arg[t].bst)] =
                                           blk[b].content]
                    ELSE device
  /\ pc' = [pc EXCEPT ![t] = "set_bst"]
  /\ UNCHANGED <<cache, blk, cache_lock, arg, cur, got, ops, logical, want, rst>>

\* Line 138: b->bst = bst.
SetBst(t) ==
  /\ pc[t] = "set_bst"
  /\ blk' = [blk EXCEPT ![cur[t]].bst = arg[t].bst]
  /\ pc' = [pc EXCEPT ![t] = "fetch"]
  /\ UNCHANGED <<cache, device, cache_lock, arg, cur, got, ops, logical, want, rst>>

\* Line 139: block_read(fs_device, bst, b->content).
Fetch(t) ==
  /\ pc[t] = "fetch"
  /\ blk' = [blk EXCEPT ![cur[t]].content = device[arg[t].bst]]
  /\ pc' = [pc EXCEPT ![t] = "set_flags"]
  /\ UNCHANGED <<cache, device, cache_lock, arg, cur, got, ops, logical, want, rst>>

\* Lines 140-141: is_valid = true; is_dirty = false.
SetFlags(t) ==
  /\ pc[t] = "set_flags"
  /\ blk' = [blk EXCEPT ![cur[t]].is_valid = TRUE, ![cur[t]].is_dirty = FALSE]
  /\ pc' = [pc EXCEPT ![t] = "evict_unlock"]
  /\ UNCHANGED <<cache, device, cache_lock, arg, cur, got, ops, logical, want, rst>>

\* Line 142: rw_lock_release(&b->lock, false).
EvictUnlock(t) ==
  /\ pc[t] = "evict_unlock"
  /\ blk' = rw_released(cur[t], FALSE)
  /\ pc' = [pc EXCEPT ![t] = "lock_slot"]
  /\ UNCHANGED <<cache, device, cache_lock, arg, cur, got, ops, logical, want, rst>>

\* Line 147: rw_lock_acquire(&b->lock, reader).
LockSlot(t) ==
  /\ pc[t] = "lock_slot"
  /\ rw_can_acquire(cur[t], arg[t].reader)
  /\ blk' = rw_acquired(cur[t], arg[t].reader)
  /\ pc' = [pc EXCEPT ![t] = "unlock_cache"]
  /\ UNCHANGED <<cache, device, cache_lock, arg, cur, got, ops, logical, want, rst>>

\* Line 148: lock_release(&cache_lock).
UnlockCache(t) ==
  /\ pc[t] = "unlock_cache"
  /\ cache_lock' = NoThread
  /\ pc' = [pc EXCEPT ![t] = "copy"]
  /\ UNCHANGED <<cache, blk, device, arg, cur, got, ops, logical, want, rst>>

\* Line 94: memcpy(dest, b->content), or lines 100-101: memcpy(b->content,
\* src) and is_dirty = true.
Copy(t) ==
  /\ pc[t] = "copy"
  /\ LET b == cur[t]
     IN IF arg[t].reader
          THEN /\ got' = [got EXCEPT ![t] = blk[b].content]
               /\ want' = [want EXCEPT ![t] = logical[arg[t].bst]]
               /\ UNCHANGED <<blk, logical, rst>>
          ELSE /\ blk' = [blk EXCEPT ![b].content = arg[t].val,
                                     ![b].is_dirty = TRUE]
               /\ logical' = [logical EXCEPT ![arg[t].bst] = arg[t].val]
               /\ UNCHANGED <<got, want, rst>>
  /\ pc' = [pc EXCEPT ![t] = "unlock_slot"]
  /\ UNCHANGED <<cache, device, cache_lock, arg, cur, ops, rst>>

\* Line 95 / 102: rw_lock_release(&b->lock, reader); the call returns.
UnlockSlot(t) ==
  /\ pc[t] = "unlock_slot"
  /\ blk' = rw_released(cur[t], arg[t].reader)
  /\ pc' = [pc EXCEPT ![t] = "idle"]
  /\ arg' = [arg EXCEPT ![t] = NoArg]
  /\ cur' = [cur EXCEPT ![t] = 0]
  /\ got' = [got EXCEPT ![t] = 0]
  /\ want' = [want EXCEPT ![t] = 0]
  /\ UNCHANGED <<cache, device, cache_lock, ops, logical, rst>>

CacheInit ==
  /\ cache = cache_init_list
  /\ blk = [b \in Slots |-> new_cache_block]
  /\ device = [s \in CacheSectors |-> InitialContent(s)]
  /\ cache_lock = NoThread
  /\ pc = [t \in Threads |-> "idle"]
  /\ arg = [t \in Threads |-> NoArg]
  /\ cur = [t \in Threads |-> 0]
  /\ got = [t \in Threads |-> 0]
  /\ ops = 0
  /\ logical = [s \in CacheSectors |-> InitialContent(s)]
  /\ want = [t \in Threads |-> 0]
  /\ rst = [resets |-> 0, flushed |-> <<>>, stamp |-> [b \in Slots |-> 0],
            oldest |-> Slots]

\* A step of the block cache leaves the rest of the file system alone.
CacheOnly == UNCHANGED <<openVars, fileVars>>

CacheNext ==
  \E t \in Threads :
    \/ LockCache(t) /\ CacheOnly
    \/ Scan(t) /\ CacheOnly
    \/ EvictLock(t) /\ CacheOnly
    \/ Writeback(t) /\ CacheOnly
    \/ SetBst(t) /\ CacheOnly
    \/ Fetch(t) /\ CacheOnly
    \/ SetFlags(t) /\ CacheOnly
    \/ EvictUnlock(t) /\ CacheOnly
    \/ LockSlot(t) /\ CacheOnly
    \/ UnlockCache(t) /\ CacheOnly
    \/ Copy(t) /\ CacheOnly
    \/ UnlockSlot(t) /\ CacheOnly

\* ------------------------------------------------------------------------
\* cache_reset, cache_destroy and the counters
\* ------------------------------------------------------------------------

\* The flush test of line 160 with is_valid alone.
FlushesValidOnly(b) == blk[b].is_valid

\* Line 160: whether cache_destroy writes the block to the device.
Flushes(b) == blk[b].is_valid /\ blk[b].is_dirty

\* The blocks that are not allocated: in no list and not the block a
\* thread has popped and not freed yet.
FreeBlocks ==
  {b \in Slots : /\ \A i \in 1 .. Len(cache) : cache[i] # b
                 /\ \A t \in Threads : cur[t] # b}

\* Line 71: the struct cache_block calloc hands out, 0 (NULL) when the
\* memory of CacheSize blocks is used up.
Calloc ==
  IF FreeBlocks = {} THEN 0
  ELSE CHOOSE b \in FreeBlocks : \A c \in FreeBlocks : b <= c

RECURSIVE Total(_, _)
\* Lines 179-184 / 192-197: the sum of a counter over the blocks of a list.
Total(list, counter) ==
  IF list = <<>> THEN 0 ELSE blk[Head(list)][counter] + Total(Tail(list), counter)

\* Lines 176-187: what get_cache_hit_cnt returns.
get_cache_hit_cnt == Total(cache, "hit_cnt")

\* Lines 189-200: what get_cache_miss_cnt returns.
get_cache_miss_cnt == Total(cache, "miss_cnt")

\* The thread that calls cache_reset; both threads read and write.
Resetter == "t1"

\* cache_reset entered, line 171: lock_acquire(&cache_lock).
ResetLock(t) ==
  /\ pc[t] = "idle"
  /\ t = Resetter
  /\ rst.resets < MaxResets
  /\ cache_lock = NoThread
  /\ cache_lock' = t
  /\ rst' = [rst EXCEPT !.resets = @ + 1, !.flushed = <<>>]
  /\ pc' = [pc EXCEPT ![t] = "destroy_pop"]
  /\ UNCHANGED <<cache, blk, device, arg, cur, got, ops, logical, want>>

\* Lines 153-155: the test of the loop of cache_destroy and list_pop_front.
DestroyPop(t) ==
  /\ pc[t] = "destroy_pop"
  /\ IF cache = <<>>
       THEN /\ pc' = [pc EXCEPT ![t] = "init_lock"]
            /\ UNCHANGED <<cache, cur>>
       ELSE /\ cur' = [cur EXCEPT ![t] = Head(cache)]
            /\ cache' = Tail(cache)
            /\ pc' = [pc EXCEPT ![t] = "destroy_lock"]
  /\ UNCHANGED <<blk, device, cache_lock, arg, got, ops, logical, want, rst>>

\* Line 158: rw_lock_acquire(&b->lock, false).
DestroyLock(t) ==
  /\ pc[t] = "destroy_lock"
  /\ rw_can_acquire(cur[t], FALSE)
  /\ blk' = rw_acquired(cur[t], FALSE)
  /\ pc' = [pc EXCEPT ![t] = "destroy_write"]
  /\ UNCHANGED <<cache, device, cache_lock, arg, cur, got, ops, logical, want, rst>>

\* Lines 160-162: block_write of a valid and dirty block.
DestroyWrite(t) ==
  /\ pc[t] = "destroy_write"
  /\ LET b == cur[t]
     IN /\ device' = IF Flushes(b)
                       THEN [device EXCEPT ![blk[b].bst] = blk[b].content]
                       ELSE device
        /\ rst' = [rst EXCEPT !.flushed =
                     Append(@, [b |-> b, is_valid |-> blk[b].is_valid,
                                is_dirty |-> blk[b].is_dirty, bst |-> blk[b].bst,
                                wrote |-> Flushes(b)])]
  /\ pc' = [pc EXCEPT ![t] = "destroy_free"]
  /\ UNCHANGED <<cache, blk, cache_lock, arg, cur, got, ops, logical, want>>

\* Lines 165-166: rw_lock_release(&b->lock, false); free(b).
DestroyFree(t) ==
  /\ pc[t] = "destroy_free"
  /\ blk' = rw_released(cur[t], FALSE)
  /\ cur' = [cur EXCEPT ![t] = 0]
  /\ pc' = [pc EXCEPT ![t] = "destroy_pop"]
  /\ UNCHANGED <<cache, device, cache_lock, arg, got, ops, logical, want, rst>>

\* cache_init called by cache_reset, lines 84-85: list_init(&cache) and
\* lock_init(&cache_lock): the lock is free again, the list is empty.
InitLock(t) ==
  /\ pc[t] = "init_lock"
  /\ cache' = <<>>
  /\ cache_lock' = NoThread
  /\ arg' = [arg EXCEPT ![t].val = 0]
  /\ pc' = [pc EXCEPT ![t] = "init_push"]
  /\ UNCHANGED <<blk, device, cur, got, ops, logical, want, rst>>

\* Lines 86-89: turn i of the loop (i kept in arg[t].val): new_cache_block
\* and list_push_front, with cache_lock not held; cache_reset returns after
\* the last turn. With no memory left calloc returns NULL and line 72
\* writes through it.
InitPush(t) ==
  /\ pc[t] = "init_push"
  /\ LET b == Calloc
         i == arg[t].val
     IN IF b = 0
          THEN /\ pc' = [pc EXCEPT ![t] = "undefined"]
               /\ UNCHANGED <<cache, blk, arg, rst>>
          ELSE /\ blk' = [blk EXCEPT ![b] = new_cache_block]
               /\ cache' = <<b>> \o cache
               /\ rst' = [rst EXCEPT !.stamp[b] = 0]
               /\ arg' = [arg EXCEPT ![t].val = IF i + 1 < CacheSize
                                                  THEN i + 1 ELSE 0]
               /\ pc' = [pc EXCEPT ![t] = IF i + 1 < CacheSize
                                            THEN "init_push" ELSE "idle"]
  /\ UNCHANGED <<device, cache_lock, cur, got, ops, logical, want>>

\* Lines 114-126 on an empty list: the loop is not entered and b is used
\* uninitialised: what the thread does from here on is undefined.
ScanEmpty(t) ==
  /\ pc[t] = "scan"
  /\ cache = <<>>
  /\ pc' = [pc EXCEPT ![t] = "undefined"]
  /\ UNCHANGED <<cache, blk, device, cache_lock, arg, cur, got, ops, logical,
                 want, rst>>

\* cache_read and cache_write, at most ResetOps of them, and cache_reset.
ResetNext ==
  \E t \in Threads :
    \/ LockCache(t) /\ ops < ResetOps /\ CacheOnly
    \/ Scan(t) /\ CacheOnly
    \/ EvictLock(t) /\ CacheOnly
    \/ Writeback(t) /\ CacheOnly
    \/ SetBst(t) /\ CacheOnly
    \/ Fetch(t) /\ CacheOnly
    \/ SetFlags(t) /\ CacheOnly
    \/ EvictUnlock(t) /\ CacheOnly
    \/ LockSlot(t) /\ CacheOnly
    \/ UnlockCache(t) /\ CacheOnly
    \/ Copy(t) /\ CacheOnly
    \/ UnlockSlot(t) /\ CacheOnly
    \/ ResetLock(t) /\ CacheOnly
    \/ DestroyPop(t) /\ CacheOnly
    \/ DestroyLock(t) /\ CacheOnly
    \/ DestroyWrite(t) /\ CacheOnly
    \/ DestroyFree(t) /\ CacheOnly
    \/ InitLock(t) /\ CacheOnly
    \/ InitPush(t) /\ CacheOnly
    \/ ScanEmpty(t) /\ CacheOnly

\* ------------------------------------------------------------------------
\* Claims about the block cache (checked under Spec)
\* ------------------------------------------------------------------------

\* C1: in every reachable state, under any interleaving of cache_read and
\* cache_write, no two slots are both valid and tagged with the same sector.
C1_NoTwoValidSlotsSameSector ==
  \A b1, b2 \in Slots :
    (b1 # b2 /\ blk[b1].is_valid /\ blk[b2].is_valid) => blk[b1].bst # blk[b2].bst

\* C1 witness: every slot is valid, one of them has been refilled (a valid
\* slot was evicted) and both threads are inside a call.
C1_Witness ==
  /\ \A b \in Slots : blk[b].is_valid
  /\ \E b \in Slots : blk[b].miss_cnt >= 2
  /\ \A t \in Threads : pc[t] # "idle"

\* The thread has copied the slot to dest and not yet returned.
ReadCopied(t) == pc[t] = "unlock_slot" /\ arg[t].reader

\* C2: a cache_read of S returns the contents of the most recently completed
\* cache_write to S, or the device's contents if S was never written, also
\* after S was evicted and fetched again; and a sector no valid slot is
\* tagged with has its latest contents on the device, so a dirty victim was
\* written back under its old sector number before the slot was refilled.
C2_ReadReturnsLastWrite ==
  /\ \A t \in Threads : ReadCopied(t) => got[t] = want[t]
  /\ \A s \in CacheSectors :
       (\A b \in Slots : ~(blk[b].is_valid /\ blk[b].bst = s)) => device[s] = logical[s]

\* C2 witness: a cache_read has returned a written value out of a clean
\* slot: the value was written, written back at the eviction and fetched.
C2_Witness ==
  \E t \in Threads :
    /\ ReadCopied(t)
    /\ got[t] \in 1 .. MaxOps
    /\ ~blk[cur[t]].is_dirty
    /\ device[arg[t].bst] = got[t]

\* The thread is at a block_write or block_read of find_block_and_acq_lock
\* that the code is going to execute.
DoingDeviceIO(t) ==
  \/ pc[t] = "fetch"
  \/ pc[t] = "writeback" /\ blk[cur[t]].is_valid /\ blk[cur[t]].is_dirty

\* C3 as stated: cache_lock is never held by a thread while that thread
\* performs a device read or a device write.
C3_NoDeviceIOUnderCacheLock ==
  \A t \in Threads : DoingDeviceIO(t) => cache_lock # t

\* C3 as amended: the thread holds cache_lock through the whole lookup, the
\* write-back of the dirty victim and the fetch of the requested sector
\* included, and has released it only for the copy between the slot and the
\* caller's buffer.
C3_CacheLockHeldAcrossDeviceIO ==
  /\ \A t \in Threads : DoingDeviceIO(t) => cache_lock = t
  /\ \A t \in Threads : pc[t] \in {"copy", "unlock_slot"} => cache_lock # t

\* C3 witness: a thread is about to write a dirty victim back while it holds
\* cache_lock, and the other thread has a call to make.
C3_Witness ==
  \E t \in Threads :
    /\ pc[t] = "writeback" /\ blk[cur[t]].is_valid /\ blk[cur[t]].is_dirty
    /\ cache_lock = t
    /\ \E u \in Threads \ {t} : pc[u] = "idle" /\ ops < MaxOps

\* ------------------------------------------------------------------------
\* Claims about cache_reset and the counters (checked under ResetSpec)
\* ------------------------------------------------------------------------

\* cache_destroy has returned to cache_reset, which has not gone on.
DestroyReturned == \E t \in Threads : pc[t] = "init_lock"

\* C18: when cache_destroy has returned, after any calls of cache_read and
\* cache_write, the device holds for every sector what the last cache_write
\* to it stored, and cache_destroy has written every block that was valid
\* and dirty and no other.
C18_DestroyFlushesEveryDirtyBlock ==
  DestroyReturned =>
    /\ \A s \in CacheSectors : device[s] = logical[s]
    /\ \A i \in 1 .. Len(rst.flushed) :
         rst.flushed[i].wrote <=> (rst.flushed[i].is_valid /\ rst.flushed[i].is_dirty)

\* C18 witness: cache_destroy has returned having written a dirty block,
\* whose sector differs on the device from what it held at the start, and
\* having left a valid clean block unwritten.
C18_Witness ==
  /\ DestroyReturned
  /\ \E i, j \in 1 .. Len(rst.flushed) :
       /\ rst.flushed[i].wrote
       /\ device[rst.flushed[i].bst] # InitialContent(rst.flushed[i].bst)
       /\ rst.flushed[j].is_valid /\ ~rst.flushed[j].is_dirty

\* C19: the hit count and the miss count are cumulative: every lookup adds
\* one to one of them, so whenever they can be read (cache_lock is free)
\* they add up to the number of lookups made.
C19_CountersCountLookups ==
  cache_lock = NoThread => get_cache_hit_cnt + get_cache_miss_cnt = ops

\* C20: a lookup always finds CacheSize blocks in the list; the block it
\* hits or evicts is moved to the head; the block evicted on a miss is one
\* whose last lookup is the oldest of all, dirty or not.
C20_EvictsLeastRecentlyUsed ==
  \A t \in Threads :
    /\ pc[t] = "scan" => Len(cache) = CacheSize
    /\ (pc[t] \in {"evict_lock", "lock_slot", "unlock_cache"} /\ cache_lock = t)
         => cache # <<>> /\ cache[1] = cur[t]
    /\ pc[t] = "evict_lock" => cur[t] \in rst.oldest

\* ------------------------------------------------------------------------
\* Open-inode list
\* ------------------------------------------------------------------------

\* A struct inode malloc has not handed out yet.
NoInode ==
  [state |-> "unalloc", sector |-> 0, open_cnt |-> 0, removed |-> FALSE,
   deny_write_cnt |-> 0, inode_lock |-> NoThread]

\* Lines 398-402: the fields of a new struct inode.
NewInode(sector) ==
  [state |-> "live", sector |-> sector, open_cnt |-> 1, removed |-> FALSE,
   deny_write_cnt |-> 0, inode_lock |-> NoThread]

\* The locals of a thread that is in no call; refs counts the references
\* to each handle the thread has been returned and has not closed.
NoLocals(refs) == [sector |-> 0, h |-> 0, tmp |-> 0, refs |-> refs]

\* Lines 383-389: the handles of the list with this sector, by position.
ListPositions(sector) ==
  {i \in 1 .. Len(open_inodes) : inode[open_inodes[i]].sector = sector}

\* Lines 383-389: the first handle of the list with this sector, 0 if none.
ListLookup(sector) ==
  IF ListPositions(sector) = {}
    THEN 0
    ELSE open_inodes[CHOOSE i \in ListPositions(sector) :
                       \A j \in ListPositions(sector) : i <= j]

\* Line 392: malloc: an object not handed out yet, 0 (NULL) if none is left.
Malloc ==
  IF \E h \in Handles : inode[h].state = "unalloc"
    THEN CHOOSE h \in Handles :
           /\ inode[h].state = "unalloc"
           /\ \A g \in Handles : inode[g].state = "unalloc" => h <= g
    ELSE 0

\* The thread starts a call: one more of the MaxInodeOps.
StartCall(t) == opc[t] = "idle" /\ hist.calls < MaxInodeOps

\* The call of the thread returns handle h (0: none) to its caller.
Returned(t, h) ==
  [oloc EXCEPT ![t] = NoLocals(IF h = 0 THEN oloc[t].refs
                                        ELSE [oloc[t].refs EXCEPT ![h] = @ + 1])]

\* A struct inode the thread may still use: free() has not been called on it.
\* A thread that touches a freed struct inode goes no further.
Live(h) == inode[h].state = "live"

\* inode_open(sector), lines 383-389: the lookup in open_inodes, made
\* without inode_list_lock; a hit goes on in inode_reopen.
OpenScan(t) ==
  /\ StartCall(t)
  /\ \E sector \in OpenSectors :
       LET h == ListLookup(sector)
       IN /\ oloc' = [oloc EXCEPT ![t].sector = sector, ![t].h = h]
          /\ opc' = [opc EXCEPT ![t] = IF h = 0 THEN "open_alloc" ELSE "reopen_lock"]
  /\ hist' = [hist EXCEPT !.calls = @ + 1]
  /\ UNCHANGED <<open_inodes, inode, inode_list_lock>>

\* Lines 392-402: malloc and the initialisation; NULL is returned at once.
OpenAlloc(t) ==
  /\ opc[t] = "open_alloc"
  /\ LET h == Malloc
     IN IF h = 0
          THEN /\ oloc' = Returned(t, 0)
               /\ opc' = [opc EXCEPT ![t] = "idle"]
               /\ UNCHANGED <<inode, hist>>
          ELSE /\ inode' = [inode EXCEPT ![h] = NewInode(oloc[t].sector)]
               /\ hist' = [hist EXCEPT !.opens[h] = 1]
               /\ oloc' = [oloc EXCEPT ![t].h = h]
               /\ opc' = [opc EXCEPT ![t] = "open_lock"]
  /\ UNCHANGED <<open_inodes, inode_list_lock>>

\* Line 404: lock_acquire(&inode_list_lock).
OpenLock(t) ==
  /\ opc[t] = "open_lock"
  /\ inode_list_lock = NoThread
  /\ inode_list_lock' = t
  /\ opc' = [opc EXCEPT ![t] = "open_push"]
  /\ UNCHANGED <<open_inodes, inode, oloc, hist>>

\* Line 405: list_push_front(&open_inodes, &inode->elem).
OpenPush(t) ==
  /\ opc[t] = "open_push"
  /\ open_inodes' = <<oloc[t].h>> \o open_inodes
  /\ opc' = [opc EXCEPT ![t] = "open_unlock"]
  /\ UNCHANGED <<inode, inode_list_lock, oloc, hist>>

\* Lines 406-407: lock_release(&inode_list_lock); return inode.
OpenUnlock(t) ==
  /\ opc[t] = "open_unlock"
  /\ inode_list_lock' = NoThread
  /\ oloc' = Returned(t, oloc[t].h)
  /\ opc' = [opc EXCEPT ![t] = "idle"]
  /\ UNCHANGED <<open_inodes, inode, hist>>

\* inode_reopen(inode) called by a thread that holds a reference.
ReopenCall(t) ==
  /\ StartCall(t)
  /\ \E h \in Handles :
       /\ oloc[t].refs[h] > 0
       /\ oloc' = [oloc EXCEPT ![t].h = h]
  /\ opc' = [opc EXCEPT ![t] = "reopen_lock"]
  /\ hist' = [hist EXCEPT !.calls = @ + 1]
  /\ UNCHANGED <<open_inodes, inode, inode_list_lock>>

\* Line 412: lock_acquire(&inode->inode_lock).
ReopenLock(t) ==
  /\ opc[t] = "reopen_lock"
  /\ Live(oloc[t].h)
  /\ inode[oloc[t].h].inode_lock = NoThread
  /\ inode' = [inode EXCEPT ![oloc[t].h].inode_lock = t]
  /\ opc' = [opc EXCEPT ![t] = "reopen_inc"]
  /\ UNCHANGED <<open_inodes, inode_list_lock, oloc, hist>>

\* Lines 413-414: inode->open_cnt++.
ReopenInc(t) ==
  /\ opc[t] = "reopen_inc"
  /\ Live(oloc[t].h)
  /\ inode' = [inode EXCEPT ![oloc[t].h].open_cnt = @ + 1]
  /\ hist' = [hist EXCEPT !.opens[oloc[t].h] = @ + 1]
  /\ opc' = [opc EXCEPT ![t] = "reopen_unlock"]
  /\ UNCHANGED <<open_inodes, inode_list_lock, oloc>>

\* Lines 415-416: lock_release(&inode->inode_lock); return inode.
ReopenUnlock(t) ==
  /\ opc[t] = "reopen_unlock"
  /\ Live(oloc[t].h)
  /\ inode' = [inode EXCEPT ![oloc[t].h].inode_lock = NoThread]
  /\ oloc' = Returned(t, oloc[t].h)
  /\ opc' = [opc EXCEPT ![t] = "idle"]
  /\ UNCHANGED <<open_inodes, inode_list_lock, hist>>

\* inode_remove(inode), lines 452-455, by a thread that holds a reference.
Remove(t) ==
  /\ StartCall(t)
  /\ \E h \in Handles :
       /\ oloc[t].refs[h] > 0
       /\ Live(h)
       /\ ~inode[h].removed
       /\ inode' = [inode EXCEPT ![h].removed = TRUE]
  /\ hist' = [hist EXCEPT !.calls = @ + 1]
  /\ UNCHANGED <<open_inodes, inode_list_lock, opc, oloc>>

\* inode_close(inode) by a thread that gives up one of its references, line
\* 431: the load of --inode->open_cnt, made without inode_lock.
CloseLoad(t) ==
  /\ StartCall(t)
  /\ \E h \in Handles :
       /\ oloc[t].refs[h] > 0
       /\ Live(h)
       /\ oloc' = [oloc EXCEPT ![t].h = h, ![t].tmp = inode[h].open_cnt,
                               ![t].refs[h] = @ - 1]
  /\ opc' = [opc EXCEPT ![t] = "close_store"]
  /\ hist' = [hist EXCEPT !.calls = @ + 1]
  /\ UNCHANGED <<open_inodes, inode, inode_list_lock>>

\* Line 431: the store of --inode->open_cnt and the test against 0.
CloseStore(t) ==
  /\ opc[t] = "close_store"
  /\ Live(oloc[t].h)
  /\ inode' = [inode EXCEPT ![oloc[t].h].open_cnt = oloc[t].tmp - 1]
  /\ hist' = [hist EXCEPT !.closes[oloc[t].h] = @ + 1]
  /\ IF oloc[t].tmp - 1 = 0
       THEN /\ opc' = [opc EXCEPT ![t] = "close_lock"]
            /\ UNCHANGED oloc
       ELSE /\ opc' = [opc EXCEPT ![t] = "idle"]
            /\ oloc' = Returned(t, 0)
  /\ UNCHANGED <<open_inodes, inode_list_lock>>

\* Line 433: lock_acquire(&inode->inode_lock).
CloseLock(t) ==
  /\ opc[t] = "close_lock"
  /\ Live(oloc[t].h)
  /\ inode[oloc[t].h].inode_lock = NoThread
  /\ inode' = [inode EXCEPT ![oloc[t].h].inode_lock = t]
  /\ opc' = [opc EXCEPT ![t] = "close_remove"]
  /\ UNCHANGED <<open_inodes, inode_list_lock, oloc, hist>>

\* Line 434: list_remove(&inode->elem).
CloseRemove(t) ==
  /\ opc[t] = "close_remove"
  /\ open_inodes' = SelectSeq(open_inodes, LAMBDA x : x # oloc[t].h)
  /\ opc' = [opc EXCEPT ![t] = "close_unlock"]
  /\ UNCHANGED <<inode, inode_list_lock, oloc, hist>>

\* Line 435: lock_release(&inode->inode_lock).
CloseUnlock(t) ==
  /\ opc[t] = "close_unlock"
  /\ inode' = [inode EXCEPT ![oloc[t].h].inode_lock = NoThread]
  /\ opc' = [opc EXCEPT ![t] = "close_free"]
  /\ UNCHANGED <<open_inodes, inode_list_lock, oloc, hist>>

\* Lines 437-447: the blocks of a removed inode are handed to inode_resize
\* (FileSpec), then free(inode).
CloseFree(t) ==
  /\ opc[t] = "close_free"
  /\ inode' = [inode EXCEPT ![oloc[t].h].state = "freed"]
  /\ hist' = [hist EXCEPT !.frees[oloc[t].h] = @ + 1]
  /\ oloc' = Returned(t, 0)
  /\ opc' = [opc EXCEPT ![t] = "idle"]
  /\ UNCHANGED <<open_inodes, inode_list_lock>>

\* inode_init, lines 242-245, and no struct inode handed out.
OpenInit ==
  /\ open_inodes = <<>>
  /\ inode = [h \in Handles |-> NoInode]
  /\ inode_list_lock = NoThread
  /\ opc = [t \in Threads |-> "idle"]
  /\ oloc = [t \in Threads |-> NoLocals([h \in Handles |-> 0])]
  /\ hist = [calls |-> 0, opens |-> [h \in Handles |-> 0],
             closes |-> [h \in Handles |-> 0], frees |-> [h \in Handles |-> 0],
             wret |-> [t \in Threads |-> -1]]

\* A step on the open-inode list leaves the cache and the sectors alone.
OpenOnly == UNCHANGED <<cacheVars, fileVars>>

OpenNext ==
  \E t \in Threads :
    \/ OpenScan(t) /\ OpenOnly
    \/ OpenAlloc(t) /\ OpenOnly
    \/ OpenLock(t) /\ OpenOnly
    \/ OpenPush(t) /\ OpenOnly
    \/ OpenUnlock(t) /\ OpenOnly
    \/ ReopenCall(t) /\ OpenOnly
    \/ ReopenLock(t) /\ OpenOnly
    \/ ReopenInc(t) /\ OpenOnly
    \/ ReopenUnlock(t) /\ OpenOnly
    \/ Remove(t) /\ OpenOnly
    \/ CloseLoad(t) /\ OpenOnly
    \/ CloseStore(t) /\ OpenOnly
    \/ CloseLock(t) /\ OpenOnly
    \/ CloseRemove(t) /\ OpenOnly
    \/ CloseUnlock(t) /\ OpenOnly
    \/ CloseFree(t) /\ OpenOnly

\* ------------------------------------------------------------------------
\* Deny and allow write
\* ------------------------------------------------------------------------

\* The kernel has panicked: no thread runs any more.
Panicked == \E t \in Threads : opc[t] = "panic"

\* What lock_acquire does when the caller already holds the lock: its
\* assertion stops the kernel, or the caller sleeps on its own lock.
RelockOutcomes == {"panic", "deny_blocked"}

\* A call on a handle the thread holds a reference to.
HandleCall(t, first) ==
  /\ StartCall(t)
  /\ \E h \in Handles :
       /\ oloc[t].refs[h] > 0
       /\ oloc' = [oloc EXCEPT ![t].h = h]
  /\ opc' = [opc EXCEPT ![t] = first]
  /\ hist' = [hist EXCEPT !.calls = @ + 1]
  /\ UNCHANGED <<open_inodes, inode, inode_list_lock>>

\* lock_acquire(&inode->inode_lock) by a thread that does not hold it.
HandleLock(t, at, then) ==
  /\ opc[t] = at
  /\ Live(oloc[t].h)
  /\ inode[oloc[t].h].inode_lock = NoThread
  /\ inode' = [inode EXCEPT ![oloc[t].h].inode_lock = t]
  /\ opc' = [opc EXCEPT ![t] = then]
  /\ UNCHANGED <<open_inodes, inode_list_lock, oloc, hist>>

\* inode_deny_write(inode) by an opener, lines 576-581.
DenyCall(t) == HandleCall(t, "deny_lock")

\* Line 577: lock_acquire(&inode->inode_lock).
DenyLock(t) == HandleLock(t, "deny_lock", "deny_inc")

\* Line 578: inode->deny_write_cnt++.
DenyInc(t) ==
  /\ opc[t] = "deny_inc"
  /\ Live(oloc[t].h)
  /\ inode' = [inode EXCEPT ![oloc[t].h].deny_write_cnt = @ + 1]
  /\ opc' = [opc EXCEPT ![t] = "deny_assert"]
  /\ UNCHANGED <<open_inodes, inode_list_lock, oloc, hist>>

\* Line 579: ASSERT(inode->deny_write_cnt <= inode->open_cnt).
DenyAssert(t) ==
  /\ opc[t] = "deny_assert"
  /\ Live(oloc[t].h)
  /\ opc' = [opc EXCEPT ![t] =
               IF inode[oloc[t].h].deny_write_cnt <= inode[oloc[t].h].open_cnt
                 THEN "deny_relock" ELSE "panic"]
  /\ UNCHANGED <<open_inodes, inode, inode_list_lock, oloc, hist>>

\* Line 580: lock_acquire(&inode->inode_lock) once more, by its holder: the
\* call never returns and the lock is never released.
DenyRelock(t) ==
  /\ opc[t] = "deny_relock"
  /\ Live(oloc[t].h)
  /\ inode[oloc[t].h].inode_lock = t
  /\ \E outcome \in RelockOutcomes : opc' = [opc EXCEPT ![t] = outcome]
  /\ UNCHANGED <<open_inodes, inode, inode_list_lock, oloc, hist>>

\* inode_allow_write(inode) by an opener, lines 586-592.
AllowCall(t) == HandleCall(t, "allow_lock")

\* Line 587: lock_acquire(&inode->inode_lock).
AllowLock(t) == HandleLock(t, "allow_lock", "allow_assert")

\* Lines 588-591: the two assertions, inode->deny_write_cnt-- and
\* lock_release(&inode->inode_lock).
AllowDec(t) ==
  /\ opc[t] = "allow_assert"
  /\ Live(oloc[t].h)
  /\ IF /\ inode[oloc[t].h].deny_write_cnt > 0
        /\ inode[oloc[t].h].deny_write_cnt <= inode[oloc[t].h].open_cnt
       THEN /\ inode' = [inode EXCEPT ![oloc[t].h].deny_write_cnt = @ - 1,
                                      ![oloc[t].h].inode_lock = NoThread]
            /\ opc' = [opc EXCEPT ![t] = "idle"]
            /\ oloc' = Returned(t, 0)
       ELSE /\ opc' = [opc EXCEPT ![t] = "panic"]
            /\ UNCHANGED <<inode, oloc>>
  /\ UNCHANGED <<open_inodes, inode_list_lock, hist>>

\* inode_write_at(inode, buffer, size, offset) by an opener, lines 510-572.
WriteCall(t) == HandleCall(t, "write_lock")

\* Line 515: lock_acquire(&inode->inode_lock).
WriteLock(t) == HandleLock(t, "write_lock", "write_check")

\* Whether the write-denied return of line 517 releases inode_lock: it
\* does not.
DeniedReturnUnlocks == FALSE

\* Lines 516-517: if (inode->deny_write_cnt) return 0.
WriteCheck(t) ==
  /\ opc[t] = "write_check"
  /\ Live(oloc[t].h)
  /\ IF inode[oloc[t].h].deny_write_cnt # 0
       THEN /\ opc' = [opc EXCEPT ![t] = "idle"]
            /\ oloc' = Returned(t, 0)
            /\ hist' = [hist EXCEPT !.wret[t] = 0]
            /\ inode' = IF DeniedReturnUnlocks
                          THEN [inode EXCEPT ![oloc[t].h].inode_lock = NoThread]
                          ELSE inode
       ELSE /\ opc' = [opc EXCEPT ![t] = "write_body"]
            /\ UNCHANGED <<inode, oloc, hist>>
  /\ UNCHANGED <<open_inodes, inode_list_lock>>

\* Lines 519-571: the resize and the copy loop (IoSpec), then
\* lock_release(&inode->inode_lock) and the return of bytes_written.
WriteBody(t) ==
  /\ opc[t] = "write_body"
  /\ Live(oloc[t].h)
  /\ inode' = [inode EXCEPT ![oloc[t].h].inode_lock = NoThread]
  /\ \E bytes_written \in {0, BLOCK_SECTOR_SIZE} :
       hist' = [hist EXCEPT !.wret[t] = bytes_written]
  /\ opc' = [opc EXCEPT ![t] = "idle"]
  /\ oloc' = Returned(t, 0)
  /\ UNCHANGED <<open_inodes, inode_list_lock>>

\* A step of an opener: the kernel has not panicked, and the cache and the
\* sectors are left alone.
Running == ~Panicked /\ UNCHANGED <<cacheVars, fileVars>>

\* Openers that open, reopen, close, deny, allow and write.
DenyNext ==
  \E t \in Threads :
    \/ OpenScan(t) /\ Running
    \/ OpenAlloc(t) /\ Running
    \/ OpenLock(t) /\ Running
    \/ OpenPush(t) /\ Running
    \/ OpenUnlock(t) /\ Running
    \/ ReopenLock(t) /\ Running
    \/ ReopenInc(t) /\ Running
    \/ ReopenUnlock(t) /\ Running
    \/ CloseLoad(t) /\ Running
    \/ CloseStore(t) /\ Running
    \/ CloseLock(t) /\ Running
    \/ CloseRemove(t) /\ Running
    \/ CloseUnlock(t) /\ Running
    \/ CloseFree(t) /\ Running
    \/ DenyCall(t) /\ Running
    \/ DenyLock(t) /\ Running
    \/ DenyInc(t) /\ Running
    \/ DenyAssert(t) /\ Running
    \/ DenyRelock(t) /\ Running
    \/ AllowCall(t) /\ Running
    \/ AllowLock(t) /\ Running
    \/ AllowDec(t) /\ Running
    \/ WriteCall(t) /\ Running
    \/ WriteLock(t) /\ Running
    \/ WriteCheck(t) /\ Running
    \/ WriteBody(t) /\ Running

\* ------------------------------------------------------------------------
\* Claims about the open-inode list (checked under OpenSpec)
\* ------------------------------------------------------------------------

\* C4: under any interleaving of inode_open calls, the open-inode list never
\* holds two handles with the same sector number (all opens of a sector
\* return the same handle), the lookup-or-insert being one step under
\* inode_list_lock: when a thread inserts, its lookup still stands.
C4_OneHandlePerSector ==
  /\ \A i, j \in 1 .. Len(open_inodes) :
       i # j => inode[open_inodes[i]].sector # inode[open_inodes[j]].sector
  /\ \A t \in Threads : opc[t] = "open_push" => ListLookup(oloc[t].sector) = 0

\* No thread is inside inode_close of handle h.
NoCloseRunning(h) ==
  \A t \in Threads :
    opc[t] \in {"close_store", "close_lock", "close_remove", "close_unlock",
                "close_free"} => oloc[t].h # h

\* C5: the reference count equals opens minus closes in every intermediate
\* state, and a handle with k opens is released exactly once, by its k-th
\* close and by no earlier one.
C5_ReleasedOnceAtLastClose ==
  \A h \in Handles :
    /\ Live(h) => inode[h].open_cnt = hist.opens[h] - hist.closes[h]
    /\ hist.frees[h] <= 1
    /\ inode[h].state = "freed" => hist.closes[h] = hist.opens[h]
    /\ (hist.opens[h] > 0 /\ hist.closes[h] = hist.opens[h] /\ NoCloseRunning(h))
         => inode[h].state = "freed"

\* ------------------------------------------------------------------------
\* Claims about deny and allow write (checked under DenySpec, DenyFairSpec)
\* ------------------------------------------------------------------------

\* C16: in every reachable state every open handle has
\* 0 <= deny_write_cnt <= open_cnt, each opener calling inode_deny_write at
\* most once; inode_allow_write with a count of 0 stops the kernel and
\* decrements nothing.
C16_DenyCountWithinOpenCount ==
  \A h \in Handles :
    Live(h) => /\ 0 <= inode[h].deny_write_cnt
               /\ inode[h].deny_write_cnt <= inode[h].open_cnt

\* C15: an inode_write_at attempted while deny_write_cnt is above 0
\* returns 0 (having changed nothing).
C15_DeniedWriteReturnsZero ==
  \A t \in Threads :
    (opc[t] = "write_lock" /\ Live(oloc[t].h)
       /\ inode[oloc[t].h].deny_write_cnt > 0)
      ~> (opc[t] = "idle" /\ hist.wret[t] = 0)

\* The lock hierarchy, first acquired first: inode_list_lock (line 239),
\* a handle's inode_lock (line 402), cache_lock (line 113), a slot's rw
\* lock (lines 132, 147).
LockHierarchy == <<"inode_list_lock", "inode_lock", "cache_lock", "slot_lock">>

\* The place of a lock in the hierarchy.
Rank(l) == CHOOSE i \in 1 .. Len(LockHierarchy) : LockHierarchy[i] = l

\* Where a thread is about to call lock_acquire(&inode->inode_lock): lines
\* 412, 433, 577, 587, 515, and line 580.
HandleLockRequests ==
  {"reopen_lock", "close_lock", "deny_lock", "allow_lock", "write_lock",
   "deny_relock"}

\* Where a thread holds the rw lock of slot cur[t]: lines 132-142, 147-102
\* and 158-165.
SlotLockHeld ==
  {"writeback", "set_bst", "fetch", "set_flags", "evict_unlock", "unlock_cache",
   "copy", "unlock_slot", "destroy_write", "destroy_free"}

\* The kinds of lock the thread holds.
Held(t) ==
  (IF inode_list_lock = t THEN {"inode_list_lock"} ELSE {})
    \cup (IF \E h \in Handles : inode[h].inode_lock = t THEN {"inode_lock"} ELSE {})
    \cup (IF cache_lock = t THEN {"cache_lock"} ELSE {})
    \cup (IF pc[t] \in SlotLockHeld THEN {"slot_lock"} ELSE {})

\* The kind of lock the thread is about to acquire, if any.
Requested(t) ==
  (IF opc[t] = "open_lock" THEN {"inode_list_lock"} ELSE {})
    \cup (IF opc[t] \in HandleLockRequests THEN {"inode_lock"} ELSE {})
    \cup (IF pc[t] \in {"evict_lock", "lock_slot", "destroy_lock"}
            THEN {"slot_lock"} ELSE {})

\* The thread is about to acquire the very inode_lock it holds.
RequestsOwnLock(t) ==
  /\ opc[t] \in HandleLockRequests
  /\ inode[oloc[t].h].inode_lock = t

\* The thread sleeps on an inode_lock that nobody is going to release: its
\* holder is the thread itself, has returned to its caller, or sleeps on
\* the lock for good.
WaitsForever(t) ==
  \/ opc[t] = "deny_blocked"
  \/ /\ opc[t] \in HandleLockRequests
     /\ Live(oloc[t].h)
     /\ LET holder == inode[oloc[t].h].inode_lock
        IN /\ holder # NoThread
           /\ \/ holder = t
              \/ opc[holder] \in {"idle", "deny_blocked"}

\* C22: a thread acquires a lock only while every lock it holds comes
\* earlier in the hierarchy, never one it holds already, and no thread ends
\* up waiting for a lock that is never released.
C22_LocksTakenInOrderNoDeadlock ==
  \A t \in Threads :
    /\ \A r \in Requested(t), k \in Held(t) : Rank(k) < Rank(r)
    /\ ~RequestsOwnLock(t)
    /\ ~WaitsForever(t)

\* Where a thread is about to call lock_acquire(&inode->inode_lock) as the
\* first thing of reopen, close, deny_write, allow_write or write_at.
HandleLockEntries ==
  {"reopen_lock", "close_lock", "deny_lock", "allow_lock", "write_lock"}

\* C23: an operation on a handle acquires inode_lock once and holds it no
\* longer when it has returned, and an operation that has come to its
\* lock_acquire on a handle in use acquires the lock and returns.
C23_HandleLockTakenOnceAndReleased ==
  /\ [](\A t \in Threads :
          /\ ~RequestsOwnLock(t)
          /\ opc[t] = "idle" => \A h \in Handles : inode[h].inode_lock # t)
  /\ \A t \in Threads :
       (opc[t] \in HandleLockEntries /\ Live(oloc[t].h)) ~> (opc[t] = "idle")

\* ------------------------------------------------------------------------
\* Indexed block mapping
\* ------------------------------------------------------------------------

\* Line 28: DIV_ROUND_UP(size, BLOCK_SECTOR_SIZE).
bytes_to_sectors(size) == (size + BLOCK_SECTOR_SIZE - 1) \div BLOCK_SECTOR_SIZE

\* Lines 31-40.
bytes_to_blocks(size) ==
  LET data_num == bytes_to_sectors(size)
  IN IF data_num <= 12
       THEN data_num + 1
       ELSE IF data_num <= 128 + 12
         THEN data_num + 2
         ELSE data_num + (data_num - 140) \div 128 + 3

\* A sector of zero bytes: line 271 (zeros), lines 282, 307, 322 (memset).
ZeroSector == [w \in Words |-> 0]

\* A sector nothing has written through the cache: whatever the device holds.
JunkSector == [w \in Words |-> AllOnes]

\* Lines 361-364: a calloc'ed struct inode_disk with length 0.
FreshInode ==
  [direct |-> [i \in 0 .. DIRECT_CNT - 1 |-> 0], indirect |-> 0,
   indirect_double |-> 0, length |-> 0]

\* Lines 16-24: the struct inode_disk as the 128 words of its sector.
EncodeInode(m) ==
  [w \in Words |->
     IF w < DIRECT_CNT THEN m.direct[w]
     ELSE IF w = DIRECT_CNT THEN m.indirect
     ELSE IF w = DIRECT_CNT + 1 THEN m.indirect_double
     ELSE IF w = DIRECT_CNT + 2 THEN m.length
     ELSE IF w = DIRECT_CNT + 3 THEN INODE_MAGIC
     ELSE 0]

\* Lines 16-24: the struct inode_disk read out of the words of a sector.
DecodeInode(words) ==
  [direct |-> [i \in 0 .. DIRECT_CNT - 1 |-> words[i]],
   indirect |-> words[DIRECT_CNT], indirect_double |-> words[DIRECT_CNT + 1],
   length |-> words[DIRECT_CNT + 2]]

\* cache_write(buf, sector) as one caller sees it: the sector now holds buf.
CacheWrite(sc, sector, buf) == (sector :> buf) @@ sc

\* cache_read(buf, sector) as one caller sees it.
CacheRead(sc, sector) == IF sector \in DOMAIN sc THEN sc[sector] ELSE JunkSector

\* The free sectors in ascending order.
FreeList(fm) == SelectSeq([i \in 1 .. FsSectors |-> i - 1], LAMBDA x : x \in fm)

\* free_map_allocate_non_consecutive(count, list): the whole batch, taken
\* from the lowest free sectors, or nothing.
free_map_allocate_non_consecutive(count, fm) ==
  IF ULessEq(count, Cardinality(fm))
    THEN LET list == SubSeq(FreeList(fm), 1, count)
         IN [ok |-> TRUE, list |-> list, fm |-> fm \ {list[k] : k \in 1 .. count}]
    ELSE [ok |-> FALSE, list |-> <<>>, fm |-> fm]

\* free_map_release(sector, 1); dbl counts the releases of a free sector.
free_map_release(st, sector) ==
  [st EXCEPT !.fm = @ \cup {sector},
             !.dbl = @ + (IF sector \in st.fm THEN 1 ELSE 0)]

\* new_block_list[k]: past the end of the array the read yields garbage.
NewBlock(st, k) == IF k < Len(st.list) THEN st.list[k + 1] ELSE st.g

\* Line 272 with the index of the sector just assigned.
ZeroFillIndexAssigned(st, i) == st.n

\* Line 272: the index of new_block_list whose sector is zero-filled.
ZeroFillIndex(st, i) == i

\* Lines 264-273: one turn of the loop over the direct pointers; zfill is
\* the largest index of new_block_list that line 272 has read.
DirectIter(st, i) ==
  IF st.size <= BLOCK_SECTOR_SIZE * i /\ st.m.direct[i] # 0
    THEN [free_map_release(st, st.m.direct[i]) EXCEPT !.m.direct[i] = 0]
    ELSE IF st.size > BLOCK_SECTOR_SIZE * i /\ st.m.direct[i] = 0
      THEN [st EXCEPT !.m.direct[i] = NewBlock(st, st.n),
                      !.n = @ + 1,
                      !.sc = CacheWrite(@, NewBlock(st, ZeroFillIndex(st, i)),
                                        ZeroSector),
                      !.zfill = IF ZeroFillIndex(st, i) > @
                                  THEN ZeroFillIndex(st, i) ELSE @]
      ELSE st

RECURSIVE DirectLoop(_, _, _)
\* Lines 263-274: the turns lo .. hi - 1 of the loop, in order. The range is
\* halved, and the state the first half leaves is computed (the test of its
\* counter, never negative) before the second half starts on it.
DirectLoop(st, lo, hi) ==
  IF hi <= lo THEN st
  ELSE IF hi = lo + 1 THEN DirectIter(st, lo)
  ELSE LET mid == (lo + hi) \div 2
           half == DirectLoop(st, lo, mid)
       IN IF half.n >= 0 THEN DirectLoop(half, mid, hi) ELSE half

\* Lines 290-297: one turn of the loop over the single-indirect table.
IndirectIter(st, i) ==
  IF st.size <= (12 + i) * BLOCK_SECTOR_SIZE /\ st.buffer[i] # 0
    THEN [free_map_release(st, st.buffer[i]) EXCEPT !.buffer[i] = 0]
    ELSE IF st.size > (12 + i) * BLOCK_SECTOR_SIZE /\ st.buffer[i] = 0
      THEN [st EXCEPT !.buffer[i] = NewBlock(st, st.n), !.n = @ + 1]
      ELSE st

RECURSIVE IndirectLoop(_, _, _)
\* Lines 289-298: the turns lo .. hi - 1 of the loop, in order. The range is
\* halved, and the state the first half leaves is computed (the test of its
\* counter, never negative) before the second half starts on it.
IndirectLoop(st, lo, hi) ==
  IF hi <= lo THEN st
  ELSE IF hi = lo + 1 THEN IndirectIter(st, lo)
  ELSE LET mid == (lo + hi) \div 2
           half == IndirectLoop(st, lo, mid)
       IN IF half.n >= 0 THEN IndirectLoop(half, mid, hi) ELSE half

\* Lines 281-299: the single-indirect table is made or read, walked and
\* written back.
IndirectPart(st) ==
  LET s1 == IF st.m.indirect = 0
              THEN [st EXCEPT !.m.indirect = NewBlock(st, st.n), !.n = @ + 1,
                              !.buffer = ZeroSector]
              ELSE [st EXCEPT !.buffer = CacheRead(st.sc, st.m.indirect)]
      s2 == IndirectLoop(s1, 0, 128)
  IN [s2 EXCEPT !.sc = CacheWrite(@, s2.m.indirect, s2.buffer)]

\* Lines 329-336: one turn of the loop over a second-level table.
SecondIter(st, i, j) ==
  IF st.size <= (140 + i * 128 + j) * BLOCK_SECTOR_SIZE /\ st.buffer2[j] # 0
    THEN [free_map_release(st, st.buffer2[j]) EXCEPT !.buffer2[j] = 0]
    ELSE IF st.size > (140 + i * 128 + j) * BLOCK_SECTOR_SIZE /\ st.buffer2[j] = 0
      THEN [st EXCEPT !.buffer2[j] = NewBlock(st, st.n), !.n = @ + 1]
      ELSE st

RECURSIVE SecondLoop(_, _, _, _)
\* Lines 328-337: the turns lo .. hi - 1 of the loop, in order. The range is
\* halved, and the state the first half leaves is computed (the test of its
\* counter, never negative) before the second half starts on it.
SecondLoop(st, i, lo, hi) ==
  IF hi <= lo THEN st
  ELSE IF hi = lo + 1 THEN SecondIter(st, i, lo)
  ELSE LET mid == (lo + hi) \div 2
           half == SecondLoop(st, i, lo, mid)
       IN IF half.n >= 0 THEN SecondLoop(half, i, mid, hi) ELSE half

\* Lines 315-339: one turn of the loop over the double-indirect table.
DoubleIter(st, i) ==
  IF st.size <= (140 + i) * BLOCK_SECTOR_SIZE /\ st.buffer1[i] # 0
    THEN [free_map_release(st, st.buffer1[i]) EXCEPT !.buffer1[i] = 0]
    ELSE IF st.size > (140 + i) * BLOCK_SECTOR_SIZE
      THEN LET s1 == IF st.buffer1[i] = 0
                       THEN [st EXCEPT !.buffer1[i] = NewBlock(st, st.n),
                                       !.n = @ + 1, !.buffer2 = ZeroSector]
                       ELSE [st EXCEPT !.buffer2 = CacheRead(st.sc, st.buffer1[i])]
               s2 == SecondLoop(s1, i, 0, 128)
           IN [s2 EXCEPT !.sc = CacheWrite(@, s2.buffer1[i], s2.buffer2)]
      ELSE st

RECURSIVE DoubleLoop(_, _, _)
\* Lines 314-340: the turns lo .. hi - 1 of the loop, in order. The range is
\* halved, and the state the first half leaves is computed (the test of its
\* counter, never negative) before the second half starts on it.
DoubleLoop(st, lo, hi) ==
  IF hi <= lo THEN st
  ELSE IF hi = lo + 1 THEN DoubleIter(st, lo)
  ELSE LET mid == (lo + hi) \div 2
           half == DoubleLoop(st, lo, mid)
       IN IF half.n >= 0 THEN DoubleLoop(half, mid, hi) ELSE half

\* Lines 306-341: the double-indirect table is made or read, walked and
\* written back.
DoublePart(st) ==
  LET s1 == IF st.m.indirect_double = 0
              THEN [st EXCEPT !.m.indirect_double = NewBlock(st, st.n),
                              !.n = @ + 1, !.buffer1 = ZeroSector]
              ELSE [st EXCEPT !.buffer1 = CacheRead(st.sc, st.m.indirect_double)]
      s2 == DoubleLoop(s1, 0, 128)
  IN [s2 EXCEPT !.sc = CacheWrite(@, s2.m.indirect_double, s2.buffer1)]

\* Line 254: new_alloc_num, the difference being taken on size_t.
NewAllocNum(num_block_new, num_block_old) ==
  LET diff == num_block_new - num_block_old
  IN IF diff # 0 THEN diff ELSE 0

\* Lines 257-259 with the length stored before the allocator is asked.
OnRefusalLengthSet(m, size) == [m EXCEPT !.length = size]

\* Lines 257-259: the struct inode_disk when the allocator refuses.
OnRefusal(m, size) == m

\* What inode_resize hands back: its return value, the struct inode_disk,
\* the sectors, the free map, and for the claims the number of sectors it
\* asked for, the batch it was granted, the number of them it used, the
\* free sectors it released again and the largest index line 272 read.
ResizeResult(ok, st, requested) ==
  [ok |-> ok, m |-> st.m, sc |-> st.sc, fm |-> st.fm, requested |-> requested,
   list |-> st.list, used |-> st.n, dbl |-> st.dbl, zfill |-> st.zfill]

\* Lines 248-344: inode_resize(ind_d, size) on struct m, free map fm and
\* sectors sc; g is what a read past the end of new_block_list yields.
inode_resize(m, size, fm, sc, g) ==
  LET num_block_old == bytes_to_blocks(m.length)
      num_block_new == bytes_to_blocks(size)
      new_alloc_num == NewAllocNum(num_block_new, num_block_old)
      grant == free_map_allocate_non_consecutive(new_alloc_num, fm)
      st0 == [m |-> m, n |-> 0, fm |-> grant.fm, sc |-> sc, list |-> grant.list,
              g |-> g, size |-> size, dbl |-> 0, zfill |-> 0 - 1,
              buffer |-> ZeroSector,
              buffer1 |-> ZeroSector, buffer2 |-> ZeroSector]
      setlen(st) == [st EXCEPT !.m.length = size]
  IN IF ~grant.ok
       THEN ResizeResult(FALSE, [st0 EXCEPT !.m = OnRefusal(m, size)], new_alloc_num)
       ELSE LET s1 == DirectLoop(st0, 0, 12)
            IN IF s1.m.indirect = 0 /\ size <= 12 * BLOCK_SECTOR_SIZE
                 THEN ResizeResult(TRUE, setlen(s1), new_alloc_num)
                 ELSE LET s2 == IndirectPart(s1)
                      IN IF s2.m.indirect_double = 0 /\ size <= 140 * BLOCK_SECTOR_SIZE
                           THEN ResizeResult(TRUE, setlen(s2), new_alloc_num)
                           ELSE ResizeResult(TRUE, setlen(DoublePart(s2)),
                                             new_alloc_num)

\* The variable-length array of line 255 cannot exist when its size in bytes
\* does not fit the address space: the behaviour is undefined, and the
\* kernel may panic instead of going on to the allocator.
ArrayTooLarge(m, size) ==
  ULessEq(2 ^ 30, NewAllocNum(bytes_to_blocks(size), bytes_to_blocks(m.length)))

\* The sectors the struct inode_disk and its index sectors point to.
Referenced(m, sc) ==
  LET entries(t) == {CacheRead(sc, t)[w] : w \in Words} \ {0}
      dir == {m.direct[i] : i \in 0 .. DIRECT_CNT - 1} \ {0}
      ind == IF m.indirect = 0 THEN {} ELSE {m.indirect} \cup entries(m.indirect)
      dbl == IF m.indirect_double = 0 THEN {}
             ELSE {m.indirect_double} \cup entries(m.indirect_double)
                  \cup UNION {entries(t) : t \in entries(m.indirect_double)}
  IN dir \cup ind \cup dbl

\* No sector written through the cache yet.
NoSectors == [x \in {} |-> ZeroSector]

\* The free map with n free sectors after the inode's own sector.
FreeSectors(n) ==
  {x \in 0 .. FsSectors - 1 : x > InodeSector /\ x <= InodeSector + n}

\* What the history records of a call of inode_resize with result r.
Recorded(op, size, r) ==
  [op |-> op, size |-> size, prev |-> IF last.op = "resize" THEN last.size ELSE -1,
   ok |-> r.ok, requested |-> r.requested, list |-> r.list, used |-> r.used,
   dbl |-> r.dbl, zfill |-> r.zfill, calls |-> last.calls + 1,
   old_length |-> ind_d.length,
   pre |-> [m |-> ind_d, sc |-> sect, fm |-> free_map]]

\* inode_resize(ind_d, size) called on the struct inode_disk the caller
\* holds in memory, as inode_create and inode_write_at call it.
ResizeCall ==
  /\ file.phase \in {"fresh", "mem"}
  /\ last.calls < MaxResizes
  /\ \E size \in Lengths, g \in Garbage :
       LET r == inode_resize(ind_d, size, free_map, sect, g)
       IN /\ ind_d' = r.m
          /\ sect' = r.sc
          /\ free_map' = r.fm
          /\ last' = Recorded("resize", size, r)
  /\ file' = [file EXCEPT !.phase = "mem"]

\* inode_resize(ind_d, size) stopped at line 255 by an array that cannot
\* exist: the kernel panics.
ResizePanic ==
  /\ file.phase \in {"fresh", "mem"}
  /\ last.calls < MaxResizes
  /\ \E size \in Lengths : ArrayTooLarge(ind_d, size)
  /\ file' = [file EXCEPT !.phase = "panic"]
  /\ last' = [last EXCEPT !.op = "panic"]
  /\ UNCHANGED <<ind_d, sect, free_map>>

\* Lines 366-369: whether inode_create writes the inode's sector.
CreateCommits(ok) == ok

\* inode_create(InodeSector, length), lines 351-373.
Create ==
  /\ file.phase = "fresh"
  /\ \E length \in Lengths, g \in Garbage :
       LET r == inode_resize(FreshInode, length, free_map, sect, g)
       IN /\ sect' = IF CreateCommits(r.ok)
                       THEN CacheWrite(r.sc, InodeSector, EncodeInode(r.m))
                       ELSE r.sc
          /\ free_map' = r.fm
          /\ file' = [file EXCEPT !.phase = IF r.ok THEN "created" ELSE "nocreate",
                                  !.length = length,
                                  !.granted = {r.list[k] : k \in 1 .. Len(r.list)},
                                  !.free0 = free_map]
          /\ last' = [Recorded("create", length, r) EXCEPT !.old_length = 0,
                                                           !.pre.m = FreshInode]
  /\ UNCHANGED ind_d

\* inode_open(InodeSector) of the inode not open yet, lines 392-407.
Open ==
  /\ file.phase = "created"
  /\ file' = [file EXCEPT !.phase = "open", !.open_cnt = 1]
  /\ last' = [last EXCEPT !.op = "open"]
  /\ UNCHANGED <<ind_d, sect, free_map>>

\* inode_open of the open inode, or inode_reopen: lines 411-417.
Reopen ==
  /\ file.phase = "open"
  /\ file.open_cnt < MaxOpens
  /\ file' = [file EXCEPT !.open_cnt = @ + 1]
  /\ last' = [last EXCEPT !.op = "reopen"]
  /\ UNCHANGED <<ind_d, sect, free_map>>

\* inode_remove, lines 452-455.
RemoveFile ==
  /\ file.phase = "open"
  /\ ~file.removed
  /\ file' = [file EXCEPT !.removed = TRUE]
  /\ last' = [last EXCEPT !.op = "remove"]
  /\ UNCHANGED <<ind_d, sect, free_map>>

\* inode_close, lines 425-448, by one caller at a time. The cache_read of
\* line 440 copies the inode's sector to a null pointer: here the copy
\* lands and inode_resize works on it.
Close ==
  /\ file.phase = "open"
  /\ IF file.open_cnt - 1 = 0
       THEN IF file.removed
              THEN \E g \in Garbage :
                     LET m == DecodeInode(CacheRead(sect, InodeSector))
                         r == inode_resize(m, 0, free_map, sect, g)
                     IN /\ sect' = r.sc
                        /\ free_map' = r.fm \cup {InodeSector}
                        /\ last' = [Recorded("close", 0, r) EXCEPT
                                      !.old_length = m.length, !.pre.m = m,
                                      !.dbl = @ + (IF InodeSector \in r.fm THEN 1 ELSE 0)]
                        /\ file' = [file EXCEPT !.phase = "closed", !.open_cnt = 0]
              ELSE /\ file' = [file EXCEPT !.phase = "closed", !.open_cnt = 0]
                   /\ last' = [last EXCEPT !.op = "close"]
                   /\ UNCHANGED <<sect, free_map>>
       ELSE /\ file' = [file EXCEPT !.open_cnt = @ - 1]
            /\ last' = [last EXCEPT !.op = "close"]
            /\ UNCHANGED <<sect, free_map>>
  /\ UNCHANGED ind_d

\* The last inode_close of a removed inode stopped by the copy to the null
\* pointer (line 440) or by the array of line 255: the kernel panics.
ClosePanic ==
  /\ file.phase = "open"
  /\ file.open_cnt = 1
  /\ file.removed
  /\ file' = [file EXCEPT !.phase = "panic", !.open_cnt = 0]
  /\ last' = [last EXCEPT !.op = "panic"]
  /\ UNCHANGED <<ind_d, sect, free_map>>

\* ------------------------------------------------------------------------
\* Byte I/O on the open inode
\* ------------------------------------------------------------------------

\* Offsets and sizes in bytes handed to inode_read_at and inode_write_at:
\* whole words, so that a sector's 128 words describe what is copied.
IoOffsets == {0, 256, 512}

IoSizes == {256, 512, 1024, 5000}

\* Word k of the buffer handed to inode_write_at: no two words alike, none 0.
Pattern(k) == 1000 + k

\* The smaller of two numbers (lines 473, 476, 535, 538).
Min(a, b) == IF a < b THEN a ELSE b

\* Lines 595-599: inode_length. The cache_read of line 597 copies the
\* inode's sector to a null pointer; here the copy lands and is read.
inode_length(sc) == DecodeInode(CacheRead(sc, InodeSector)).length

\* Lines 207-232: byte_to_sector(inode, pos). The index is one less than
\* the number of sectors that hold pos bytes; the subtraction is unsigned,
\* so an index "one before the first" is far outside the array, and what is
\* read there is the word g.
byte_to_sector(sc, pos, g) ==
  LET inode_content == DecodeInode(CacheRead(sc, InodeSector))
      sector_num == bytes_to_sectors(pos)
  IN IF sector_num <= 12
       THEN IF sector_num - 1 \in 0 .. DIRECT_CNT - 1
              THEN inode_content.direct[sector_num - 1]
              ELSE g
       ELSE IF sector_num <= 140
         THEN CacheRead(sc, inode_content.indirect)[sector_num - 12 - 1]
         ELSE LET n == sector_num - 140
                  indir2_content == CacheRead(sc, inode_content.indirect_double)
              IN IF n \div 128 \in Words /\ (n % 128) - 1 \in Words
                   THEN CacheRead(sc, indir2_content[n \div 128])[(n % 128) - 1]
                   ELSE g

\* Lines 542-562: the sector after the chunk is copied into it: the words
\* that start inside the chunk come from the caller's buffer, the others
\* from old.
ChunkWritten(old, sector_ofs, chunk_size, bytes_written) ==
  [w \in Words |->
     IF 4 * w >= sector_ofs /\ 4 * w < sector_ofs + chunk_size
       THEN Pattern((bytes_written + 4 * w - sector_ofs) \div 4)
       ELSE old[w]]

RECURSIVE WriteLoop(_, _, _, _, _)
\* Lines 527-568: the copy loop of inode_write_at on sectors sc; malloc of
\* the bounce buffer succeeds. Hands back the sectors and bytes_written.
WriteLoop(sc, size, offset, bytes_written, g) ==
  LET sector_idx == byte_to_sector(sc, offset, g)
      sector_ofs == offset % BLOCK_SECTOR_SIZE
      inode_left == inode_length(sc) - offset
      sector_left == BLOCK_SECTOR_SIZE - sector_ofs
      min_left == Min(inode_left, sector_left)
      chunk_size == Min(size, min_left)
      bounce == IF sector_ofs > 0 \/ chunk_size < sector_left
                  THEN CacheRead(sc, sector_idx)
                  ELSE ZeroSector
  IN IF size <= 0 \/ chunk_size <= 0
       THEN [sc |-> sc, ret |-> bytes_written]
       ELSE WriteLoop(CacheWrite(sc, sector_idx,
                                 ChunkWritten(bounce, sector_ofs, chunk_size,
                                              bytes_written)),
                      size - chunk_size, offset + chunk_size,
                      bytes_written + chunk_size, g)

\* Lines 480-493: the whole words of the sector copied to the caller's
\* buffer.
ChunkRead(content, sector_ofs, chunk_size) ==
  [i \in 1 .. chunk_size \div 4 |-> content[sector_ofs \div 4 + i - 1]]

RECURSIVE ReadLoop(_, _, _, _, _, _)
\* Lines 465-499: the copy loop of inode_read_at. Hands back the words
\* copied to the caller's buffer and bytes_read.
ReadLoop(sc, size, offset, buffer, bytes_read, g) ==
  LET sector_idx == byte_to_sector(sc, offset, g)
      sector_ofs == offset % BLOCK_SECTOR_SIZE
      inode_left == inode_length(sc) - offset
      sector_left == BLOCK_SECTOR_SIZE - sector_ofs
      min_left == Min(inode_left, sector_left)
      chunk_size == Min(size, min_left)
  IN IF size <= 0 \/ chunk_size <= 0
       THEN [buffer |-> buffer, ret |-> bytes_read]
       ELSE ReadLoop(sc, size - chunk_size, offset + chunk_size,
                     buffer \o ChunkRead(CacheRead(sc, sector_idx), sector_ofs,
                                         chunk_size),
                     bytes_read + chunk_size, g)

\* Lines 523-525: whether inode_write_at commits the struct inode_disk it
\* has resized to the inode's sector: it does not, there is no cache_write.
WriteCommits(grown) == FALSE

\* inode_write_at(inode, buffer, size, offset), lines 510-572, on the open
\* inode, whose deny_write_cnt is 0, by one caller at a time. The
\* cache_read of line 522 copies the inode's sector to a null pointer; here
\* the copy lands, and inode_resize works on that copy.
WriteAt ==
  /\ file.phase = "open"
  /\ io.calls < MaxWrites
  /\ \E offset \in IoOffsets, size \in IoSizes, g \in Garbage :
       LET m == DecodeInode(CacheRead(sect, InodeSector))
           new_lenght == size + offset
           grows == new_lenght > m.length
           r == inode_resize(m, new_lenght, free_map, sect, g)
           sc1 == IF ~grows THEN sect
                  ELSE IF WriteCommits(r.ok)
                    THEN CacheWrite(r.sc, InodeSector, EncodeInode(r.m))
                    ELSE r.sc
           w == WriteLoop(sc1, size, offset, 0, g)
       IN /\ sect' = w.sc
          /\ free_map' = IF grows THEN r.fm ELSE free_map
          /\ io' = [op |-> "write", offset |-> offset, size |-> size,
                    ret |-> w.ret, buffer |-> <<>>, calls |-> io.calls + 1,
                    reads |-> io.reads,
                    old_length |-> m.length, granted |-> grows /\ r.ok,
                    whole |-> offset = 0 /\ size = m.length,
                    pre |-> [sc |-> sect, fm |-> free_map]]
  /\ last' = [last EXCEPT !.op = "write"]
  /\ UNCHANGED <<ind_d, file>>

\* inode_read_at(inode, buffer, size, offset), lines 460-503, on the open
\* inode; the copies to a null pointer (lines 211, 597) land.
ReadAt ==
  /\ file.phase = "open"
  /\ io.reads < MaxReads
  /\ \E offset \in IoOffsets, size \in IoSizes, g \in Garbage :
       LET r == ReadLoop(sect, size, offset, <<>>, 0, g)
       IN io' = [io EXCEPT !.op = "read", !.offset = offset, !.size = size,
                           !.ret = r.ret, !.buffer = r.buffer,
                           !.reads = @ + 1,
                           !.old_length = inode_length(sect),
                           !.whole = io.op = "write" /\ io.whole,
                           !.pre = [sc |-> sect, fm |-> free_map]]
  /\ last' = [last EXCEPT !.op = "read"]
  /\ UNCHANGED <<ind_d, sect, free_map, file>>

\* byte_to_sector(inode, pos) for a byte of the file, as lines 467 and 529
\* call it.
Translate ==
  /\ file.phase = "open"
  /\ io.reads < MaxReads
  /\ \E pos \in {p \in Lengths \cup IoOffsets : p < inode_length(sect)},
        g \in Garbage :
       io' = [io EXCEPT !.op = "translate", !.offset = pos, !.size = 0,
                        !.ret = byte_to_sector(sect, pos, g), !.buffer = <<>>,
                        !.reads = @ + 1, !.old_length = inode_length(sect),
                        !.whole = FALSE,
                        !.pre = [sc |-> sect, fm |-> free_map]]
  /\ last' = [last EXCEPT !.op = "translate"]
  /\ UNCHANGED <<ind_d, sect, free_map, file>>

\* inode_read_at, inode_write_at or inode_length stopped by the copy of the
\* inode's sector to the null pointer (lines 211, 522, 597): the kernel
\* panics.
IoPanic ==
  /\ file.phase = "open"
  /\ file' = [file EXCEPT !.phase = "panic"]
  /\ last' = [last EXCEPT !.op = "panic"]
  /\ io' = [io EXCEPT !.op = "panic"]
  /\ UNCHANGED <<ind_d, sect, free_map>>

\* No call of inode_read_at or inode_write_at made yet.
NoIo ==
  [op |-> "none", offset |-> 0, size |-> 0, ret |-> 0, buffer |-> <<>>,
   calls |-> 0, reads |-> 0, old_length |-> 0, granted |-> FALSE, whole |-> FALSE,
   pre |-> [sc |-> NoSectors, fm |-> {}]]

\* The device with n free sectors, the inode's sector taken by the caller of
\* inode_create, and a calloc'ed struct inode_disk in memory.
FileStart(n) ==
  /\ io = NoIo
  /\ ind_d = FreshInode
  /\ sect = NoSectors
  /\ free_map = FreeSectors(n)
  /\ file = [phase |-> "fresh", open_cnt |-> 0, removed |-> FALSE, length |-> 0,
             granted |-> {}, free0 |-> FreeSectors(n)]
  /\ last = [op |-> "none", size |-> -1, prev |-> -1, ok |-> TRUE, requested |-> 0,
             list |-> <<>>, used |-> 0, dbl |-> 0, zfill |-> 0 - 1, calls |-> 0,
             old_length |-> 0,
             pre |-> [m |-> FreshInode, sc |-> NoSectors, fm |-> FreeSectors(n)]]

FileInit == \E n \in {FewFree, FsSectors} : FileStart(n)

\* A step of the block mapping leaves the cache and the inode list alone.
FileOnly == UNCHANGED <<cacheVars, openVars>>

\* A step that is no inode_read_at or inode_write_at.
NoIoStep == FileOnly /\ UNCHANGED io

FileNext ==
  \/ ResizeCall /\ NoIoStep
  \/ ResizePanic /\ NoIoStep
  \/ Create /\ NoIoStep
  \/ Open /\ NoIoStep
  \/ Reopen /\ NoIoStep
  \/ RemoveFile /\ NoIoStep
  \/ Close /\ NoIoStep
  \/ ClosePanic /\ NoIoStep

\* The inode is made and opened, then written and read.
IoNext ==
  \/ Create /\ NoIoStep
  \/ Open /\ NoIoStep
  \/ WriteAt /\ FileOnly
  \/ ReadAt /\ FileOnly
  \/ Translate /\ FileOnly
  \/ IoPanic /\ FileOnly

\* ------------------------------------------------------------------------
\* Claims about the block mapping (checked under FileSpec)
\* ------------------------------------------------------------------------

\* The sectors of the inode made by inode_create: the batch the allocator
\* granted and the inode's own sector.
InodeSectors == file.granted \cup {InodeSector}

\* C6: no sector of the inode is released while it is open, removed or not;
\* the last close of a removed inode releases every data and index sector
\* and the inode's own sector; the last close of an inode that was not
\* removed releases none.
C6_RemovedInodeReleasedAtLastClose ==
  /\ file.phase = "open" => InodeSectors \cap free_map = {}
  /\ (file.phase = "closed" /\ file.removed) => InodeSectors \subseteq free_map
  /\ (file.phase = "closed" /\ ~file.removed) => InodeSectors \cap free_map = {}

\* C7: after inode_create(_, L) bytes_to_blocks(L) sectors are allocated,
\* the inode's own sector among them, and after the removed inode's last
\* close exactly those are free again, none of them released twice.
C7_AllocatedThenReleased ==
  /\ file.phase \in {"created", "open"} =>
       Cardinality(file.free0 \ free_map) + 1 = bytes_to_blocks(file.length)
  /\ (file.phase = "closed" /\ file.removed) =>
       /\ free_map = file.free0 \cup {InodeSector}
       /\ last.dbl = 0

\* C8: when the allocator refuses the batch, inode_resize returns false with
\* the struct inode_disk, the sectors and the free map as they were before
\* the call, and inode_create returns false with no sector written.
C8_RefusalChangesNothing ==
  /\ (last.op = "resize" /\ ~last.ok) =>
       /\ ind_d = last.pre.m
       /\ sect = last.pre.sc
       /\ free_map = last.pre.fm
  /\ (last.op = "create" /\ ~last.ok) =>
       /\ file.phase = "nocreate"
       /\ InodeSector \notin DOMAIN sect
       /\ sect = last.pre.sc
       /\ free_map = last.pre.fm

\* A grow of an inode that has sectors already, refused by the allocator.
C8_Witness ==
  /\ last.op = "resize"
  /\ ~last.ok
  /\ last.old_length > 0
  /\ bytes_to_blocks(last.size) > bytes_to_blocks(last.old_length)
  /\ ind_d.length = last.old_length

\* The larger of two numbers.
Max(a, b) == IF a >= b THEN a ELSE b

\* C9: every call of inode_resize asks the allocator for exactly
\* max(0, bytes_to_blocks(new length) - bytes_to_blocks(old length))
\* sectors, so a shrink and a resize to the same length ask for none.
C9_RequestsPositiveDelta ==
  last.op \in {"resize", "create", "close"} =>
    last.requested =
      Max(0, bytes_to_blocks(last.size) - bytes_to_blocks(last.old_length))

\* The index sectors of the inode: the single-indirect table, the
\* double-indirect table and the second-level tables it points to.
IndexSectors(m, sc) ==
  ({m.indirect, m.indirect_double} \ {0})
    \cup (IF m.indirect_double = 0 THEN {}
          ELSE {CacheRead(sc, m.indirect_double)[w] : w \in Words} \ {0})

\* C10: inode_resize(m, L) right after inode_resize(m, L) leaves the
\* sectors the inode refers to, every pointer slot (those of the struct and
\* those of the index sectors), the free map and the length as the first
\* call left them.
C10_ResizeTwiceChangesNothing ==
  (last.op = "resize" /\ last.prev = last.size) =>
    /\ ind_d = last.pre.m
    /\ free_map = last.pre.fm
    /\ Referenced(ind_d, sect) = Referenced(last.pre.m, last.pre.sc)
    /\ \A t \in IndexSectors(ind_d, sect) :
         CacheRead(sect, t) = CacheRead(last.pre.sc, t)

\* Data sector k of the file, counted from 0, in the layout inode_resize
\* gives it: direct[k] (line 264), entry k - 12 of the single-indirect table
\* (line 290), entry (k - 140) mod 128 of second-level table
\* (k - 140) div 128 (line 329).
DataPointer(m, sc, k) ==
  IF k < 12 THEN m.direct[k]
  ELSE IF k < 140 THEN CacheRead(sc, m.indirect)[k - 12]
  ELSE CacheRead(sc, CacheRead(sc, m.indirect_double)[(k - 140) \div 128])
         [(k - 140) % 128]

\* C12: a grow by inode_resize keeps the pointer and the contents of every
\* data sector the file had, and every data sector it assigns, at the
\* direct, single-indirect and double-indirect level, reads back as zeros.
C12_GrowKeepsOldZeroesNew ==
  (last.op = "resize" /\ last.ok /\ last.size > last.old_length) =>
    /\ \A k \in 0 .. bytes_to_sectors(last.old_length) - 1 :
         /\ DataPointer(ind_d, sect, k) = DataPointer(last.pre.m, last.pre.sc, k)
         /\ CacheRead(sect, DataPointer(ind_d, sect, k))
              = CacheRead(last.pre.sc, DataPointer(last.pre.m, last.pre.sc, k))
    /\ \A k \in bytes_to_sectors(last.old_length)
                  .. bytes_to_sectors(last.size) - 1 :
         CacheRead(sect, DataPointer(ind_d, sect, k)) = ZeroSector

\* The number of sectors of a file of L bytes with one second-level index
\* sector for every started group of 128 data sectors beyond 140.
BlockCount(L) ==
  LET d == (L + BLOCK_SECTOR_SIZE - 1) \div BLOCK_SECTOR_SIZE
  IN IF d <= 12 THEN d + 1
     ELSE IF d <= 140 THEN d + 2
     ELSE d + 3 + (d - 140 + 127) \div 128

\* C17: bytes_to_blocks(L) is d + 1, d + 2 or d + 3 + ceil((d - 140) / 128)
\* for the d data sectors of L bytes, for every length inode_resize and
\* inode_create are called with.
C17_BlocksCountStartedGroups ==
  last.op \in {"resize", "create"} =>
    bytes_to_blocks(last.size) = BlockCount(last.size)

\* Data sector k of the file as DataPointer finds it, 0 where the index
\* sector on the way to it is not there.
PointerOrZero(m, sc, k) ==
  IF k < 12 THEN m.direct[k]
  ELSE IF k < 140
    THEN IF m.indirect = 0 THEN 0 ELSE CacheRead(sc, m.indirect)[k - 12]
    ELSE IF m.indirect_double = 0 THEN 0
      ELSE LET table == CacheRead(sc, m.indirect_double)[(k - 140) \div 128]
           IN IF table = 0 THEN 0 ELSE CacheRead(sc, table)[(k - 140) % 128]

\* The index sectors of the inode that address no data sector below d: the
\* single-indirect table from 12 down, the double-indirect table from 140
\* down, second-level table i from 140 + 128 * i down.
IndexSectorsBeyond(m, sc, d) ==
  (IF d <= 12 THEN {m.indirect} \ {0} ELSE {})
    \cup (IF m.indirect_double = 0 THEN {}
          ELSE (IF d <= 140 THEN {m.indirect_double} ELSE {})
               \cup ({CacheRead(sc, m.indirect_double)[i] :
                        i \in {i \in Words : d <= 140 + 128 * i}} \ {0}))

\* C21: a call of inode_resize that shrinks the file releases every data
\* sector beyond the new length once and clears its pointer slot, and
\* releases every index sector that addresses no data sector any more and
\* clears the pointer to it.
C21_ShrinkReleasesBeyondLength ==
  (last.op = "resize"
     /\ bytes_to_sectors(last.size) < bytes_to_sectors(last.old_length)) =>
    LET d == bytes_to_sectors(last.size)
        old == bytes_to_sectors(last.old_length)
    IN /\ \A k \in d .. old - 1 :
            /\ PointerOrZero(last.pre.m, last.pre.sc, k) \in free_map \cup {0}
            /\ PointerOrZero(ind_d, sect, k) = 0
       /\ IndexSectorsBeyond(last.pre.m, last.pre.sc, d) \subseteq free_map
       /\ IndexSectorsBeyond(ind_d, sect, d) = {}
       /\ last.dbl = 0

\* The pointer slots of the inode with the sector each holds: those of the
\* struct inode_disk (lines 17-19) and the words of its index sectors.
SlotValues(m, sc) ==
  LET table(name, base, t) ==
        {<<name, base + w, CacheRead(sc, t)[w]>> : w \in Words}
      second == IF m.indirect_double = 0 THEN {}
                ELSE {i \in Words : CacheRead(sc, m.indirect_double)[i] # 0}
  IN {<<"direct", i, m.direct[i]>> : i \in 0 .. DIRECT_CNT - 1}
       \cup {<<"indirect", 0, m.indirect>>,
             <<"indirect_double", 0, m.indirect_double>>}
       \cup (IF m.indirect = 0 THEN {} ELSE table("buffer", 0, m.indirect))
       \cup (IF m.indirect_double = 0 THEN {}
             ELSE table("buffer1", 0, m.indirect_double))
       \cup UNION {table("buffer2", PTRS_PER_SECTOR * i,
                         CacheRead(sc, m.indirect_double)[i]) : i \in second}

\* The pointer slots that hold sector s.
SlotsHolding(m, sc, s) == {x \in SlotValues(m, sc) : x[3] = s}

\* The struct inode_disk the last call of inode_resize worked on: the one
\* inode_create wrote to the inode's sector, or the caller's.
ResizedInode ==
  IF last.op = "create" THEN DecodeInode(CacheRead(sect, InodeSector)) ELSE ind_d

\* C24: a successful inode_resize takes from the batch as many sectors as
\* it asked for, never reads new_block_list past its end (the index of line
\* 272 included), and leaves every granted sector in exactly one pointer
\* slot and no pointer slot with a sector that was not granted.
C24_BatchUsedExactly ==
  (last.op \in {"resize", "create"} /\ last.ok) =>
    LET granted == {last.list[k] : k \in 1 .. Len(last.list)}
    IN /\ last.used = last.requested
       /\ last.used <= Len(last.list)
       /\ last.zfill < Len(last.list)
       /\ \A s \in granted :
            Cardinality(SlotsHolding(ResizedInode, sect, s)) = 1
       /\ \A x \in SlotValues(ResizedInode, sect) :
            x[3] # 0 => x[3] \in granted \cup Referenced(last.pre.m, last.pre.sc)

\* ------------------------------------------------------------------------
\* Claims about byte I/O (checked under IoSpec)
\* ------------------------------------------------------------------------

\* C11: an inode_write_at past the end of the file, with deny_write_cnt 0
\* and the growth granted by the allocator, returns size, and inode_length
\* is offset + size afterwards.
C11_GrowingWriteSetsLength ==
  (io.op = "write" /\ io.granted) =>
    /\ io.ret = io.size
    /\ inode_length(sect) = io.offset + io.size

\* C13: after the pattern is written over the whole file [0, L) by one
\* inode_write_at, an inode_read_at of any chunk inside [0, L) returns the
\* number of bytes asked for and the words of the pattern at that offset.
C13_ReadBackWhatWasWritten ==
  (io.op = "read" /\ io.whole /\ io.offset + io.size <= io.old_length) =>
    /\ io.ret = io.size
    /\ io.buffer = [i \in 1 .. io.size \div 4 |->
                      Pattern(io.offset \div 4 + i - 1)]

\* C14: byte_to_sector of byte p of the file is data sector floor(p / 512)
\* of the file, counted from 0: a direct pointer below 12, an entry of the
\* single-indirect table below 140, an entry of a second-level table from
\* 140 on.
C14_TranslateZeroBased ==
  io.op = "translate" =>
    io.ret = DataPointer(DecodeInode(CacheRead(sect, InodeSector)), sect,
                         io.offset \div BLOCK_SECTOR_SIZE)

\* ------------------------------------------------------------------------
\* Specifications
\* ------------------------------------------------------------------------

Init == CacheInit /\ OpenInit /\ FileStart(FsSectors)

Next == CacheNext

Spec == Init /\ [][Next]_vars

ResetSpec == Init /\ [][ResetNext]_vars

OpenSpec == Init /\ [][OpenNext]_vars

DenySpec == Init /\ [][DenyNext]_vars

\* A thread that can take a step takes one: the scheduler is fair.
DenyFairSpec == DenySpec /\ WF_vars(DenyNext)

FileSpecInit == CacheInit /\ OpenInit /\ FileInit

FileSpec == FileSpecInit /\ [][FileNext]_vars

IoSpec == FileSpecInit /\ [][IoNext]_vars

====
